---- MODULE Spec2Model ----
(***************************************************************************)
(* Model of nodetools/models/models.py: the memo format descriptor         *)
(* (MemoStructure), the fragment group (MemoGroup), the structural         *)
(* classifier (StructuralPattern), the content pattern (MemoPattern) and   *)
(* the registry of interaction patterns (InteractionGraph).                *)
(*                                                                         *)
(* Python strings are sequences of one-character strings, so that split,   *)
(* re.match and the "in" test are computed as the code computes them.      *)
(* A dict field is a record [kind, val]: kind "absent" (key missing),      *)
(* "None", "bool" or "str".  Optional[int] uses NONE for None.  A compiled  *)
(* re.Pattern is [kind "re", val source text, flags].                      *)
(***************************************************************************)
EXTENDS Integers, Sequences, FiniteSets, TLC

VARIABLES group, hist, queues, tx_in, outcome,
          patterns, memo_pattern_to_id, reg, last, pat_in, pat_other

vars == <<group, hist, queues, tx_in, outcome,
          patterns, memo_pattern_to_id, reg, last, pat_in, pat_other>>

group_vars == <<group, hist, queues>>
graph_vars == <<patterns, memo_pattern_to_id, reg, last>>
input_vars == <<tx_in, pat_in, pat_other>>

\* ---------------------------------------------------------------- bounds
MaxCalls == 3
MaxQueue == 2
MaxRegs == 2

\* ------------------------------------------------------- python values
NONE == -1

Absent == [kind |-> "absent", val |-> <<>>]
PyNone == [kind |-> "None", val |-> <<>>]
PyTrue == [kind |-> "bool", val |-> <<"T">>]
PyFalse == [kind |-> "bool", val |-> <<>>]
Str(s) == [kind |-> "str", val |-> s]

\* dict.get(key): a missing key reads as None
get(tx, key) == IF tx[key].kind = "absent" THEN PyNone ELSE tx[key]

\* dict.get(key, ""): a missing key reads as the default, a stored None stays None
get_default(tx, key) == IF tx[key].kind = "absent" THEN Str(<<>>) ELSE tx[key]

\* bool(v) / "not v" for None, booleans and strings
truthy(v) == v.kind \in {"bool", "str"} /\ v.val # <<>>

\* ------------------------------------------------------------- strings
Digits == {"0", "1", "2", "3", "4", "5", "6", "7", "8", "9"}

DigitVal(c) ==
    CASE c = "0" -> 0 [] c = "1" -> 1 [] c = "2" -> 2 [] c = "3" -> 3
      [] c = "4" -> 4 [] c = "5" -> 5 [] c = "6" -> 6 [] c = "7" -> 7
      [] c = "8" -> 8 [] c = "9" -> 9

\* int(s) for a non-empty string of decimal digits
RECURSIVE int(_)
int(s) == IF s = <<>> THEN 0
          ELSE 10 * int(SubSeq(s, 1, Len(s) - 1)) + DigitVal(s[Len(s)])

\* length of the greedy \d+ run of s that starts at position i
RECURSIVE DigitRun(_, _)
DigitRun(s, i) == IF i <= Len(s) /\ s[i] \in Digits THEN 1 + DigitRun(s, i + 1) ELSE 0

StartsWith(s, p) == Len(s) >= Len(p) /\ SubSeq(s, 1, Len(p)) = p

\* sub in s
Contains(s, sub) ==
    \E i \in 1..(Len(s) + 1) :
        i + Len(sub) - 1 <= Len(s) /\ SubSeq(s, i, i + Len(sub) - 1) = sub

\* s.split(sep) for a one-character separator
RECURSIVE split(_, _)
split(s, sep) ==
    IF \A i \in 1..Len(s) : s[i] # sep THEN <<s>>
    ELSE LET i == CHOOSE k \in 1..Len(s) :
                      s[k] = sep /\ \A j \in 1..(k - 1) : s[j] # sep
         IN <<SubSeq(s, 1, i - 1)>> \o split(SubSeq(s, i + 1, Len(s)), sep)

\* MemoDataStructureType values
ECDH == "e"
BROTLI == "b"
CHUNK == "c"
NO_PROCESSING == "-"

S_chunk == <<"c", "h", "u", "n", "k", "_">>
S_COMPRESSED == <<"C", "O", "M", "P", "R", "E", "S", "S", "E", "D", "_", "_">>
tesSUCCESS == <<"t", "e", "s", "S", "U", "C", "C", "E", "S", "S">>

\* re.match(r'c(\d+)/(\d+)', chunking): anchored at the start only
chunk_match(chunking) ==
    LET n1 == DigitRun(chunking, 2)
        n2 == DigitRun(chunking, 3 + n1)
        ok == /\ Len(chunking) >= 1
              /\ chunking[1] = CHUNK
              /\ n1 >= 1
              /\ Len(chunking) >= 2 + n1
              /\ chunking[2 + n1] = "/"
              /\ n2 >= 1
    IN [ok |-> ok,
        g1 |-> IF ok THEN SubSeq(chunking, 2, 1 + n1) ELSE <<>>,
        g2 |-> IF ok THEN SubSeq(chunking, 3 + n1, 2 + n1 + n2) ELSE <<>>]

\* re.match(r'^chunk_(\d+)__', memo_data)
legacy_chunk_match(memo_data) ==
    LET n == DigitRun(memo_data, 7)
        ok == /\ StartsWith(memo_data, S_chunk)
              /\ n >= 1
              /\ Len(memo_data) >= 8 + n
              /\ memo_data[7 + n] = "_"
              /\ memo_data[8 + n] = "_"
    IN [ok |-> ok, g1 |-> IF ok THEN SubSeq(memo_data, 7, 6 + n) ELSE <<>>]

\* ------------------------------------------------------- MemoStructure
MemoStructure(chunked, idx, total, gid, comp, enc, std) ==
    [is_chunked |-> chunked, chunk_index |-> idx, total_chunks |-> total,
     group_id |-> gid, compression_type |-> comp, encryption_type |-> enc,
     is_standardized_format |-> std]

is_complete(structure) == ~structure.is_chunked

is_standardized_memo_format(memo_format) ==
    IF ~truthy(memo_format) THEN FALSE
    ELSE LET parts == split(memo_format.val, ".") IN
         IF Len(parts) # 3 THEN FALSE
         ELSE IF parts[1] \notin {<<ECDH>>, <<NO_PROCESSING>>} THEN FALSE
         ELSE IF parts[2] \notin {<<BROTLI>>, <<NO_PROCESSING>>} THEN FALSE
         ELSE IF parts[3] # <<NO_PROCESSING>> /\ ~chunk_match(parts[3]).ok THEN FALSE
         ELSE TRUE

parse_chunk_index_mut(m) == int(m.g2)

parse_chunk_index(m) == int(m.g1)

parse_standardized_format(memo_format) ==
    LET parts == split(memo_format, ".")
        encryption_type == IF parts[1] = <<ECDH>> THEN "ECDH" ELSE "None"
        compression_type == IF parts[2] = <<BROTLI>> THEN "BROTLI" ELSE "None"
        m == chunk_match(parts[3])
        matched == parts[3] # <<NO_PROCESSING>> /\ m.ok
        chunk_index == IF matched THEN parse_chunk_index(m) ELSE NONE
        total_chunks == IF matched THEN int(m.g2) ELSE NONE
    IN MemoStructure(chunk_index # NONE, chunk_index, total_chunks, PyNone,
                     compression_type, encryption_type, TRUE)

\* from_transaction raises TypeError when re.match is handed a stored None
from_transaction_raises(tx) ==
    /\ ~is_standardized_memo_format(get(tx, "memo_format"))
    /\ get_default(tx, "memo_data").kind # "str"

from_transaction(tx) ==
    LET memo_data == get_default(tx, "memo_data")
        memo_format == get(tx, "memo_format")
    IN IF is_standardized_memo_format(memo_format)
       THEN [parse_standardized_format(memo_format.val)
                EXCEPT !.group_id = get(tx, "memo_type")]
       ELSE LET m == legacy_chunk_match(memo_data.val)
                is_compressed == m.ok /\ m.g1 = <<"1">>
                                      /\ Contains(memo_data.val, S_COMPRESSED)
            IN MemoStructure(m.ok,
                             IF m.ok THEN int(m.g1) ELSE NONE,
                             NONE,
                             get(tx, "memo_type"),
                             IF is_compressed THEN "BROTLI" ELSE "None",
                             "None",
                             FALSE)

\* ----------------------------------------------------------- MemoGroup
create_from_transaction(tx) ==
    [group_id |-> get(tx, "memo_type"),
     memos |-> <<tx>>,
     structure |-> from_transaction(tx)]

_is_structure_consistent_mut(g, new_structure) ==
    /\ new_structure.encryption_type = g.structure.encryption_type
    /\ new_structure.compression_type = g.structure.compression_type

_is_structure_consistent(g, new_structure) ==
    /\ new_structure.encryption_type = g.structure.encryption_type
    /\ new_structure.compression_type = g.structure.compression_type
    /\ new_structure.total_chunks = g.structure.total_chunks

\* the two early returns of add_memo
add_memo_rejects_mut(g, tx) ==
    get(tx, "transaction_result") # Str(tesSUCCESS)

add_memo_rejects_mut_status(g, tx) ==
    get(tx, "memo_type") # g.group_id

add_memo_rejects(g, tx) ==
    \/ get(tx, "transaction_result") # Str(tesSUCCESS)
    \/ get(tx, "memo_type") # g.group_id

\* position of next(memo for memo in memos if chunk_index == idx), 0 for None
existing_memo(memos, idx) ==
    LET hits == {i \in 1..Len(memos) : from_transaction(memos[i]).chunk_index = idx}
    IN IF hits = {} THEN 0 ELSE CHOOSE i \in hits : \A j \in hits : i <= j

\* tx.get('datetime') < existing_memo.get('datetime')
is_earlier_mut_always(tx, existing) == TRUE

is_earlier_mut_later(tx, existing) == tx.datetime > existing.datetime

is_earlier_mut_eq(tx, existing) == tx.datetime <= existing.datetime

is_earlier(tx, existing) == tx.datetime < existing.datetime

\* list.remove(x): drops the first element equal to x
remove(memos, x) ==
    LET i == CHOOSE k \in 1..Len(memos) :
                 memos[k] = x /\ \A j \in 1..(k - 1) : memos[j] # x
    IN SubSeq(memos, 1, i - 1) \o SubSeq(memos, i + 1, Len(memos))

add_memo(g, tx) ==
    IF add_memo_rejects(g, tx) THEN [ret |-> "False", memos |-> g.memos]
    ELSE IF from_transaction_raises(tx) THEN [ret |-> "TypeError", memos |-> g.memos]
    ELSE LET new_structure == from_transaction(tx)
             e == existing_memo(g.memos, new_structure.chunk_index)
         IN IF new_structure.is_standardized_format
            THEN IF ~_is_structure_consistent(g, new_structure)
                 THEN [ret |-> "False", memos |-> g.memos]
                 ELSE [ret |-> "True", memos |-> Append(g.memos, tx)]
            ELSE IF new_structure.chunk_index # NONE /\ e # 0
                 THEN IF is_earlier(tx, g.memos[e])
                      THEN [ret |-> "True",
                            memos |-> Append(remove(g.memos, g.memos[e]), tx)]
                      ELSE [ret |-> "False", memos |-> g.memos]
                 ELSE [ret |-> "True", memos |-> Append(g.memos, tx)]

chunk_indices(g) ==
    {from_transaction(g.memos[i]).chunk_index : i \in 1..Len(g.memos)} \ {NONE}

\* --------------------------------------------------- StructuralPattern
match(tx) ==
    IF ~truthy(get(tx, "has_memos")) THEN "NO_MEMO"
    ELSE IF from_transaction_raises(tx) THEN "TypeError"
    ELSE LET structure == from_transaction(tx) IN
         IF structure.is_standardized_format
         THEN IF structure.is_chunked THEN "NEEDS_GROUPING" ELSE "DIRECT_MATCH"
         ELSE IF Contains(get_default(tx, "memo_data").val, S_chunk)
              THEN "NEEDS_LEGACY_GROUPING"
              ELSE "DIRECT_MATCH"

\* --------------------------------------------------------- MemoPattern
Re(src, flags) == [kind |-> "re", val |-> src, flags |-> flags]

\* one regular-expression atom against one character: "." is any character
\* but a newline, unless the pattern was compiled with re.DOTALL
atom_matches(a, c, flags) ==
    IF a = "." THEN (c # "NL" \/ flags = "DOTALL") ELSE a = c

\* the pattern source r matched at the start of text: literals, ".", "x*", "$"
RECURSIVE match_here(_, _, _)
match_here(r, text, flags) ==
    IF r = <<>> THEN TRUE
    ELSE IF Len(r) >= 2 /\ r[2] = "*"
         THEN \E k \in 0..Len(text) :
                 /\ \A i \in 1..k : atom_matches(r[1], text[i], flags)
                 /\ match_here(SubSeq(r, 3, Len(r)), SubSeq(text, k + 1, Len(text)), flags)
    ELSE IF r = <<"$">> THEN text = <<>> \/ text = <<"NL">>
    ELSE /\ text # <<>>
         /\ atom_matches(r[1], text[1], flags)
         /\ match_here(Tail(r), Tail(text), flags)

\* bool(pattern.match(value)): anchored at the start of value, a leading "^" is
\* implied
re_match(pattern, value) ==
    match_here(IF pattern.val # <<>> /\ pattern.val[1] = "^"
               THEN Tail(pattern.val) ELSE pattern.val,
               value, pattern.flags)

MemoPattern(type, fmt, data) ==
    [memo_type |-> type, memo_format |-> fmt, memo_data |-> data]

\* "if self.memo_type:" -- a compiled pattern is always true, a str when non-empty
slot_set(slot) == slot.kind = "re" \/ (slot.kind = "str" /\ slot.val # <<>>)

_pattern_matches(pattern, value) ==
    IF pattern.kind = "re" THEN re_match(pattern, value) ELSE pattern.val = value

slot_matches(slot, tx, key) ==
    slot_set(slot) =>
        /\ get(tx, key).kind = "str"
        /\ get(tx, key).val # <<>>
        /\ _pattern_matches(slot, get(tx, key).val)

matches(p, tx) ==
    IF ~slot_matches(p.memo_type, tx, "memo_type") THEN FALSE
    ELSE IF ~slot_matches(p.memo_format, tx, "memo_format") THEN FALSE
    ELSE IF ~slot_matches(p.memo_data, tx, "memo_data") THEN FALSE
    ELSE TRUE

\* the value hashed for one slot: the source text of a compiled pattern
slot_hash(slot) == IF slot.kind = "re" THEN Str(slot.val) ELSE slot

\* __hash__: the hash of the triple, modelled by the triple itself
__hash__(p) == <<slot_hash(p.memo_type), slot_hash(p.memo_format), slot_hash(p.memo_data)>>

compare_attrs_mut(a, b) == slot_hash(a) = slot_hash(b)

compare_attrs(a, b) ==
    IF a.kind = "re" /\ b.kind = "re" THEN a.val = b.val ELSE a = b

__eq__(p, q) ==
    /\ compare_attrs(p.memo_type, q.memo_type)
    /\ compare_attrs(p.memo_format, q.memo_format)
    /\ compare_attrs(p.memo_data, q.memo_data)

\* ---------------------------------------------------- InteractionGraph
\* valid_responses: None, or a set of MemoPattern
NoResponses == [kind |-> "None", val |-> {}]
Responses(S) == [kind |-> "set", val |-> S]

InteractionPattern(mp, type, vr) ==
    [memo_pattern |-> mp, transaction_type |-> type, valid_responses |-> vr]

\* __post_init__ raises ValueError
post_init_raises_mut(type, vr) ==
    type = "REQUEST" /\ vr.val = {}

post_init_raises(type, vr) ==
    \/ type = "RESPONSE" /\ vr.val # {}
    \/ type = "REQUEST" /\ vr.val = {}

\* a dict that keeps insertion order: d[key] = value
dict_set(d, key, value) ==
    IF \E i \in 1..Len(d) : d[i].key = key
    THEN [i \in 1..Len(d) |-> IF d[i].key = key THEN [key |-> key, value |-> value] ELSE d[i]]
    ELSE Append(d, [key |-> key, value |-> value])

has_key(d, key) == \E i \in 1..Len(d) : d[i].key = key

dict_get(d, key) == d[CHOOSE i \in 1..Len(d) : d[i].key = key].value

\* memo_pattern_to_id[mp] = id: keys are compared with __eq__, and the key
\* object already stored is kept
reverse_set(m, mp, id) ==
    IF \E e \in m : __eq__(e.key, mp)
    THEN {IF __eq__(e.key, mp) THEN [key |-> e.key, value |-> id] ELSE e : e \in m}
    ELSE m \cup {[key |-> mp, value |-> id]}

add_pattern_mut(ps, m, pattern_id, mp, type, vr) ==
    IF post_init_raises(type, vr)
    THEN [ret |-> "ValueError", patterns |-> ps,
          memo_pattern_to_id |-> reverse_set(m, mp, pattern_id)]
    ELSE [ret |-> "None",
          patterns |-> dict_set(ps, pattern_id, InteractionPattern(mp, type, vr)),
          memo_pattern_to_id |-> reverse_set(m, mp, pattern_id)]

add_pattern(ps, m, pattern_id, mp, type, vr) ==
    IF post_init_raises(type, vr)
    THEN [ret |-> "ValueError", patterns |-> ps, memo_pattern_to_id |-> m]
    ELSE [ret |-> "None",
          patterns |-> dict_set(ps, pattern_id, InteractionPattern(mp, type, vr)),
          memo_pattern_to_id |-> reverse_set(m, mp, pattern_id)]

is_valid_response_mut(ps, request_pattern_id, response_tx) ==
    IF ~has_key(ps, request_pattern_id) THEN FALSE
    ELSE \E resp_pattern \in dict_get(ps, request_pattern_id).valid_responses.val :
            matches(resp_pattern, response_tx)

is_valid_response(ps, request_pattern_id, response_tx) ==
    IF ~has_key(ps, request_pattern_id) THEN FALSE
    ELSE LET pattern == dict_get(ps, request_pattern_id) IN
         IF pattern.transaction_type # "REQUEST" THEN FALSE
         ELSE \E resp_pattern \in pattern.valid_responses.val :
                 matches(resp_pattern, response_tx)

find_matching_pattern_mut(ps, tx) ==
    LET hits == {i \in 1..Len(ps) : matches(ps[i].value.memo_pattern, tx)}
    IN IF hits = {} THEN "None"
       ELSE ps[CHOOSE i \in hits : \A j \in hits : i >= j].key

find_matching_pattern(ps, tx) ==
    LET hits == {i \in 1..Len(ps) : matches(ps[i].value.memo_pattern, tx)}
    IN IF hits = {} THEN "None"
       ELSE ps[CHOOSE i \in hits : \A j \in hits : i <= j].key

get_pattern_id_by_memo_pattern(m, mp) ==
    IF \E e \in m : __eq__(e.key, mp)
    THEN (CHOOSE e \in m : __eq__(e.key, mp)).value
    ELSE "None"

NoPattern == MemoPattern(PyNone, PyNone, PyNone)
NoCall == [op |-> "none", ret |-> "none"]

\* the registry as constructed, before any add_pattern
NoGraph ==
    /\ patterns = <<>>
    /\ memo_pattern_to_id = {}
    /\ reg = <<>>
    /\ last = NoCall

NoPatternInput == pat_in = NoPattern /\ pat_other = NoPattern

\* ------------------------------------------------- transaction records
\* Every record carries an integer datetime: add_memo compares the two values
\* with <, which is defined only when both are present and orderable.
Tx(has, type, fmt, data, result, dt) ==
    [has_memos |-> has, memo_type |-> type, memo_format |-> fmt,
     memo_data |-> data, transaction_result |-> result, datetime |-> dt]

G1 == Str(<<"G", "1">>)
G2 == Str(<<"G", "2">>)
Success == Str(tesSUCCESS)
Failed == Str(<<"t", "e", "c", "F", "A", "I", "L", "E", "D">>)

\* current-grammar fragment of group G1 with the given format string
Std(fmt, dt) == Tx(PyTrue, G1, Str(fmt), Str(<<"x">>), Success, dt)

\* legacy fragment of group G1: no format string, the content carries the prefix
Legacy(data, dt) == Tx(PyTrue, G1, Absent, Str(data), Success, dt)

DigitChar(i) == CASE i = 1 -> "1" [] i = 2 -> "2" [] i = 3 -> "3"

\* "-.-.c<i>/3"
FragC(i) == Std(<<"-", ".", "-", ".", "c", DigitChar(i), "/", "3">>, 3)

StdPlain == Std(<<"-", ".", "-", ".", "-">>, 1)
StdEnc == Std(<<"e", ".", "-", ".", "c", "1", "/", "3">>, 1)
StdComp == Std(<<"-", ".", "b", ".", "c", "1", "/", "3">>, 1)
StdTotal == Std(<<"-", ".", "-", ".", "c", "1", "/", "2">>, 1)

\* three legacy fragments at chunk index 2: LegA is the latest, LegB and LegC tie
LegA == Legacy(S_chunk \o <<"2", "_", "_", "a">>, 2)
LegB == Legacy(S_chunk \o <<"2", "_", "_", "b">>, 1)
LegC == Legacy(S_chunk \o <<"2", "_", "_", "c">>, 1)
Leg1 == Legacy(S_chunk \o <<"1", "_", "_">> \o S_COMPRESSED \o <<"z">>, 1)
LegPlain == Legacy(<<"h", "i">>, 1)

Foreign == [LegB EXCEPT !.memo_type = G2, !.datetime = 0]
Unsettled == [FragC(2) EXCEPT !.transaction_result = Failed]
NullData == [LegPlain EXCEPT !.memo_data = PyNone]

Txs == {FragC(1), FragC(2), FragC(3), StdPlain, StdEnc, StdComp, StdTotal,
        LegA, LegB, LegC, Leg1, LegPlain, Foreign, Unsettled, NullData}

LegacyFrags == {LegA, LegB, LegC, Leg1}

Producers == {"p1", "p2"}

RECURSIVE SeqsUpTo(_, _)
SeqsUpTo(S, n) ==
    IF n = 0 THEN {<<>>}
    ELSE LET shorter == SeqsUpTo(S, n - 1)
         IN shorter \cup {Append(q, x) : q \in shorter, x \in S}

ClassifyInputs ==
    {Tx(has, type, fmt, data, Success, 1) :
        has \in {Absent, PyNone, PyTrue, PyFalse},
        type \in {Absent, PyNone, G1},
        fmt \in {Absent, PyNone, Str(<<>>), Str(<<"-", ".", "-", ".", "-">>),
                 Str(<<"e", ".", "b", ".", "c", "1", "/", "4">>),
                 Str(<<"g", "a", "r", "b", "a", "g", "e">>),
                 Str(<<"-", ".", "-", ".", "c", "/", "4">>)},
        data \in {Absent, PyNone, Str(<<>>), Str(<<"h", "i">>),
                  Str(S_chunk \o <<"1", "_", "_">> \o S_COMPRESSED \o <<"x">>),
                  Str(<<"x">> \o S_chunk \o <<"1", "_", "_">>),
                  Str(S_chunk \o <<"1", "2", "_", "_", "y">>)}}

Dot(a, b, c) == a \o <<".">> \o b \o <<".">> \o c

\* format strings around the grammar: every mix of good and bad segments, and
\* strings with two and four segments
FormatStrings ==
    {Dot(a, b, c) :
        a \in {<<"e">>, <<"-">>, <<"b">>, <<>>, <<"e", "e">>},
        b \in {<<"b">>, <<"-">>, <<"e">>, <<>>},
        c \in {<<"-">>, <<"c", "1", "/", "3">>, <<"c", "1", "2", "/", "3", "4">>,
               <<"c", "1", "/", "3", "x">>, <<"c", "1", "/", "3", "/", "4">>,
               <<"c", "/", "3">>, <<"c", "1", "/">>, <<"1", "/", "3">>,
               <<"c", "1", "-", "3">>, <<"x", "c", "1", "/", "3">>, <<>>,
               <<"-", "-">>, <<"-", ".", "-">>}}
    \cup {<<>>, <<"-", ".", "-">>, <<"e", ".", "b">>, <<"g", "a", "r", "b", "a", "g", "e">>}

FormatInputs ==
    {Tx(PyTrue, G1, fmt, Str(<<"x">>), Success, 1) :
        fmt \in {Absent, PyNone} \cup {Str(f) : f \in FormatStrings}}

\* content patterns on the memo type: two literals and a wildcard that
\* overlaps the first literal
P_X == MemoPattern(Str(<<"X">>), PyNone, PyNone)
P_Y == MemoPattern(Str(<<"Y">>), PyNone, PyNone)
P_wX == MemoPattern(Re(<<"^", "X", ".", "*">>, ""), PyNone, PyNone)

GraphPatterns == {P_X, P_Y, P_wX}
PatternIds == {"a", "b"}
InteractionTypes == {"REQUEST", "RESPONSE", "STANDALONE"}
ResponseSets == {NoResponses, Responses({}), Responses({P_Y})}

\* processed transactions the registry is asked about
TypeOnly(type) == Tx(PyTrue, type, Absent, Absent, Success, 1)
GraphTxs == {TypeOnly(Str(<<"X">>)), TypeOnly(Str(<<"Y">>)), TypeOnly(Absent)}

\* ------------------------------------------------------ the group machine
Call(op, tx, ret, memos) == [op |-> op, tx |-> tx, ret |-> ret, memos |-> memos]

NoQueues == [p \in Producers |-> <<>>]

\* a group exists once create_from_transaction has returned one
Init ==
    /\ \E tx \in Txs :
          /\ ~from_transaction_raises(tx)
          /\ group = create_from_transaction(tx)
          /\ hist = <<Call("create_from_transaction", tx, "True", <<tx>>)>>
    /\ queues = NoQueues
    /\ tx_in = StdPlain
    /\ outcome = "pending"
    /\ NoGraph
    /\ NoPatternInput

AddMemo(tx) ==
    /\ Len(hist) < MaxCalls
    /\ LET r == add_memo(group, tx) IN
          /\ group' = [group EXCEPT !.memos = r.memos]
          /\ hist' = Append(hist, Call("add_memo", tx, r.ret, r.memos))
    /\ UNCHANGED <<queues, outcome, graph_vars, input_vars>>

Next == \E tx \in Txs : AddMemo(tx)

Spec == Init /\ [][Next]_vars

\* ------------------------------------- serialized producers, one group
InitProducers ==
    /\ \E tx \in LegacyFrags :
          /\ group = create_from_transaction(tx)
          /\ hist = <<Call("create_from_transaction", tx, "True", <<tx>>)>>
    /\ queues \in [Producers -> SeqsUpTo(LegacyFrags, MaxQueue)]
    /\ tx_in = StdPlain
    /\ outcome = "pending"
    /\ NoGraph
    /\ NoPatternInput

\* producer p hands the head of its queue to add_memo; the call is atomic
Deliver(p) ==
    /\ queues[p] # <<>>
    /\ LET tx == Head(queues[p])
           r == add_memo(group, tx)
       IN /\ group' = [group EXCEPT !.memos = r.memos]
          /\ hist' = Append(hist, Call("add_memo", tx, r.ret, r.memos))
    /\ queues' = [queues EXCEPT ![p] = Tail(@)]
    /\ UNCHANGED <<outcome, graph_vars, input_vars>>

NextProducers == \E p \in Producers : Deliver(p)

SpecProducers == InitProducers /\ [][NextProducers]_vars

\* ------------------------------------------------ the classifier applied
InitClassify ==
    /\ tx_in \in ClassifyInputs
    /\ outcome = "pending"
    /\ group = create_from_transaction(StdPlain)
    /\ hist = <<>>
    /\ queues = NoQueues
    /\ NoGraph
    /\ NoPatternInput

Classify ==
    /\ outcome = "pending"
    /\ outcome' = match(tx_in)
    /\ UNCHANGED <<group_vars, graph_vars, input_vars>>

NextClassify == Classify

SpecClassify == InitClassify /\ [][NextClassify]_vars

\* ------------------------------------------------------- the registry
InitGraph ==
    /\ NoGraph
    /\ tx_in \in GraphTxs
    /\ outcome = "pending"
    /\ group = create_from_transaction(StdPlain)
    /\ hist = <<>>
    /\ queues = NoQueues
    /\ NoPatternInput

AddPattern(pattern_id, mp, type, vr) ==
    /\ Len(reg) < MaxRegs
    /\ LET r == add_pattern(patterns, memo_pattern_to_id, pattern_id, mp, type, vr) IN
          /\ patterns' = r.patterns
          /\ memo_pattern_to_id' = r.memo_pattern_to_id
          /\ reg' = IF r.ret = "None" THEN Append(reg, pattern_id) ELSE reg
          /\ last' = [op |-> "add_pattern", pattern_id |-> pattern_id,
                      memo_pattern |-> mp, transaction_type |-> type,
                      valid_responses |-> vr, ret |-> r.ret]
    /\ UNCHANGED <<group_vars, input_vars, outcome>>

FindMatchingPattern ==
    /\ last' = [op |-> "find_matching_pattern", tx |-> tx_in,
                ret |-> find_matching_pattern(patterns, tx_in)]
    /\ UNCHANGED <<patterns, memo_pattern_to_id, reg, group_vars, input_vars, outcome>>

IsValidResponse(request_pattern_id) ==
    /\ last' = [op |-> "is_valid_response", tx |-> tx_in,
                request_pattern_id |-> request_pattern_id,
                ret |-> IF is_valid_response(patterns, request_pattern_id, tx_in)
                        THEN "True" ELSE "False"]
    /\ UNCHANGED <<patterns, memo_pattern_to_id, reg, group_vars, input_vars, outcome>>

GetPatternIdByMemoPattern(mp) ==
    /\ last' = [op |-> "get_pattern_id_by_memo_pattern", memo_pattern |-> mp,
                ret |-> get_pattern_id_by_memo_pattern(memo_pattern_to_id, mp)]
    /\ UNCHANGED <<patterns, memo_pattern_to_id, reg, group_vars, input_vars, outcome>>

NextGraph ==
    \/ \E pattern_id \in PatternIds, mp \in GraphPatterns,
          type \in InteractionTypes, vr \in ResponseSets :
            AddPattern(pattern_id, mp, type, vr)
    \/ FindMatchingPattern
    \/ \E pattern_id \in PatternIds : IsValidResponse(pattern_id)
    \/ \E mp \in GraphPatterns : GetPatternIdByMemoPattern(mp)

SpecGraph == InitGraph /\ [][NextGraph]_vars

\* ------------------------------------------- the format check applied
InitFormat ==
    /\ tx_in \in FormatInputs
    /\ outcome = "pending"
    /\ group = create_from_transaction(StdPlain)
    /\ hist = <<>>
    /\ queues = NoQueues
    /\ NoGraph
    /\ NoPatternInput

CheckFormat ==
    /\ outcome = "pending"
    /\ outcome' = IF is_standardized_memo_format(get(tx_in, "memo_format"))
                  THEN "True" ELSE "False"
    /\ UNCHANGED <<group_vars, graph_vars, input_vars>>

NextFormat == CheckFormat

SpecFormat == InitFormat /\ [][NextFormat]_vars

\* ------------------------------------------------------------ properties
Last(h) == h[Len(h)]
Members == {group.memos[i] : i \in 1..Len(group.memos)}
Offered == {hist[i].tx : i \in 1..Len(hist)}
Seed == hist[1].tx
Idx(tx) == from_transaction(tx).chunk_index
Eligible(tx) ==
    /\ get(tx, "memo_type") = group.group_id
    /\ get(tx, "transaction_result") = Success
IsLegacyChunk(tx) ==
    /\ ~from_transaction_raises(tx)
    /\ ~from_transaction(tx).is_standardized_format
    /\ Idx(tx) # NONE
\* member list before call i of the history
MemosBefore(i) == IF i = 1 THEN <<>> ELSE hist[i - 1].memos

\* C1: an add_memo call with a transaction that is not settled successfully, or
\* whose memo_type differs from the group's group_id, returns False and leaves
\* the member list, the group_id and the descriptor as they were.
C1_RefusalLeavesGroup ==
    [][(/\ Len(hist') = Len(hist) + 1
        /\ Last(hist').op = "add_memo"
        /\ \/ get(Last(hist').tx, "transaction_result") # Success
           \/ get(Last(hist').tx, "memo_type") # group.group_id)
       => (Last(hist').ret = "False" /\ group' = group)]_vars

C1_Witness ==
    /\ Len(hist) = 3
    /\ hist[2].tx = Unsettled /\ hist[2].ret = "False"
    /\ hist[3].tx = Foreign /\ hist[3].ret = "False"
    /\ group.memos = <<LegA>>

\* C2: every member's memo_type equals the group's group_id and every member
\* is settled successfully, the seeding fragment included.
C2_MembersBelongAndSettled ==
    \A m \in Members :
        /\ get(m, "memo_type") = group.group_id
        /\ get(m, "transaction_result") = Success

\* C3: two settled legacy fragments of the group at one chunk index, delivered
\* one after the other to a group holding nothing at that index (or seeding
\* it), leave the earlier-stamped one in the group and not the later one,
\* whichever of the two is delivered first.
C3_EarliestWinsEitherOrder ==
    \A i \in 1..(Len(hist) - 1) :
        LET X == hist[i].tx
            Y == hist[i + 1].tx
            B == IF X.datetime < Y.datetime THEN X ELSE Y
            A == IF X.datetime < Y.datetime THEN Y ELSE X
            after == {hist[i + 1].memos[k] : k \in 1..Len(hist[i + 1].memos)}
        IN (/\ IsLegacyChunk(X) /\ IsLegacyChunk(Y)
            /\ Eligible(X) /\ Eligible(Y)
            /\ Idx(X) = Idx(Y)
            /\ X.datetime # Y.datetime
            /\ \A k \in 1..Len(MemosBefore(i)) : Idx(MemosBefore(i)[k]) # Idx(X))
           => (B \in after /\ A \notin after)

C3_Witness ==
    /\ Len(hist) = 3
    /\ hist[2].tx = LegA /\ hist[2].ret = "True"
    /\ hist[3].tx = LegB /\ hist[3].ret = "True"
    /\ LegB \in Members /\ LegA \notin Members

\* C4: delivering the same transaction twice in a row leaves the member list
\* as it was after the first delivery.
C4_DuplicateDeliveryIdempotent ==
    \A i \in 2..(Len(hist) - 1) :
        (hist[i].op = "add_memo" /\ hist[i + 1].op = "add_memo"
            /\ hist[i].tx = hist[i + 1].tx)
        => hist[i + 1].memos = hist[i].memos

\* C5: a current-grammar transaction that passes the settlement and group-id
\* checks is refused, and not appended, whenever its encryption marker,
\* compression marker or total-chunk count differs from the group's
\* descriptor; so every current-grammar member agrees with the descriptor.
Differs(tx) ==
    LET d == from_transaction(tx) IN
        \/ d.encryption_type # group.structure.encryption_type
        \/ d.compression_type # group.structure.compression_type
        \/ d.total_chunks # group.structure.total_chunks

IsStd(tx) == ~from_transaction_raises(tx) /\ from_transaction(tx).is_standardized_format

C5_InconsistentRefused ==
    /\ \A i \in 2..Len(hist) :
          (IsStd(hist[i].tx) /\ Differs(hist[i].tx))
          => (hist[i].ret = "False" /\ hist[i].memos = hist[i - 1].memos)
    /\ \A m \in Members : IsStd(m) => ~Differs(m)

C5_Witness ==
    /\ Len(hist) = 3
    /\ hist[1].tx = FragC(2)
    /\ hist[2].tx = FragC(1) /\ hist[2].ret = "True"
    /\ hist[3].tx = StdTotal /\ hist[3].ret = "False"
    /\ group.memos = <<FragC(2), FragC(1)>>

\* C6 (as stated): after any sequence of offers the member set equals the
\* offered fragments whose group id is the group's and that are settled.
C6_MembersEqualFiltered ==
    (Eligible(Seed) /\ \A i \in 1..Len(hist) : hist[i].ret # "TypeError")
    => Members = {tx \in Offered : Eligible(tx)}

\* C6 (amended): every member is the seed or an offered fragment whose group
\* id is the group's and that is settled successfully.
C6_MembersWithinFiltered ==
    Members \subseteq ({Seed} \cup {hist[i].tx : i \in {j \in 2..Len(hist) : Eligible(hist[j].tx)}})

C6_Witness ==
    /\ Len(hist) = 3
    /\ hist[2].tx = Unsettled
    /\ hist[3].tx = FragC(3) /\ hist[3].ret = "True"
    /\ Unsettled \notin Members
    /\ Seed = FragC(1)

\* C7: current-grammar fragments c1/3, c2/3, c3/3 delivered to a fresh group
\* in any order are all accepted, chunk_indices is at every point the set of
\* indices delivered so far, and {1,2,3} once all three are in.
C7_ChunkIndicesAnyOrder ==
    \A p \in [1..Len(hist) -> 1..3] :
        (/\ \A i \in 1..Len(hist) : hist[i].tx = FragC(p[i])
         /\ \A i, j \in 1..Len(hist) : i # j => p[i] # p[j])
        => /\ \A i \in 1..Len(hist) : hist[i].ret = "True"
           /\ chunk_indices(group) = {p[i] : i \in 1..Len(hist)}
           /\ Len(hist) = 3 => chunk_indices(group) = 1..3

C7_Witness ==
    /\ Len(hist) = 3
    /\ hist[1].tx = FragC(2) /\ hist[2].tx = FragC(1) /\ hist[3].tx = FragC(3)
    /\ chunk_indices(group) = {1, 2, 3}

\* C8: a chunked current-grammar group's descriptor reports complete exactly
\* when chunk_indices holds every index 1..total_chunks.
C8_CompleteWhenAllPresent ==
    (/\ group.structure.is_standardized_format
     /\ group.structure.total_chunks # NONE
     /\ \A m \in Members : IsStd(m))
    => (is_complete(group.structure)
          <=> chunk_indices(group) = 1..group.structure.total_chunks)

\* C9: with serialized deliveries of settled legacy fragments by several
\* producers, the group holds one member per delivered chunk index, namely
\* the first-delivered fragment among those with the smallest timestamp at
\* that index; with distinct timestamps per index the member set is a
\* function of the set of fragments delivered.
Winner(k) ==
    CHOOSE i \in 1..Len(hist) :
        /\ Idx(hist[i].tx) = k
        /\ \A j \in 1..Len(hist) :
              Idx(hist[j].tx) = k =>
                 /\ hist[i].tx.datetime <= hist[j].tx.datetime
                 /\ (j < i => hist[j].tx.datetime > hist[i].tx.datetime)

C9_SmallestTimestampHeld ==
    /\ \A k \in {Idx(tx) : tx \in Offered} \ {NONE} :
          LET at == {i \in 1..Len(group.memos) : Idx(group.memos[i]) = k}
          IN /\ Cardinality(at) = 1
             /\ \A i \in at : group.memos[i] = hist[Winner(k)].tx
    /\ (\A f, g \in Offered :
            (f # g /\ Idx(f) = Idx(g) /\ Idx(f) # NONE) => f.datetime # g.datetime)
       => Members = {f \in Offered :
                        \/ Idx(f) = NONE
                        \/ \A g \in Offered : Idx(g) = Idx(f) => f.datetime <= g.datetime}

C9_Witness ==
    /\ Len(hist) = 4
    /\ hist[1].tx = LegA /\ hist[2].tx = Leg1
    /\ hist[3].tx = LegC /\ hist[3].ret = "True"
    /\ hist[4].tx = LegB /\ hist[4].ret = "False"
    /\ queues["p1"] = <<>> /\ queues["p2"] # <<>>
    /\ Members = {Leg1, LegC}

\* C10: the classifier returns one of its four outcomes for every record and
\* never raises.
C10_ClassifyTotal ==
    outcome \in {"pending", "NO_MEMO", "DIRECT_MATCH", "NEEDS_GROUPING",
                 "NEEDS_LEGACY_GROUPING"}

\* C11: is_standardized_memo_format returns True exactly for the strings
\* "<e|->.<b|->.<-|c<digits>/<digits>>" with nothing after the chunk marker,
\* and False for every other string, the empty and the absent one included.
FullChunkMarker(c) ==
    \E k \in 3..(Len(c) - 1) :
        /\ c[1] = "c"
        /\ c[k] = "/"
        /\ \A i \in (2..(k - 1)) \cup ((k + 1)..Len(c)) : c[i] \in Digits

InGrammar(fmt) ==
    /\ fmt.kind = "str"
    /\ Len(fmt.val) >= 5
    /\ fmt.val[1] \in {"e", "-"}
    /\ fmt.val[2] = "."
    /\ fmt.val[3] \in {"b", "-"}
    /\ fmt.val[4] = "."
    /\ LET c == SubSeq(fmt.val, 5, Len(fmt.val))
       IN c = <<"-">> \/ FullChunkMarker(c)

C11_FormatExactlyGrammar ==
    outcome # "pending" => (outcome = "True" <=> InGrammar(tx_in.memo_format))

\* C12: add_pattern fails with a construction error for a REQUEST without
\* valid responses and for a RESPONSE with valid responses; so every RESPONSE
\* entry of patterns has no valid responses and every REQUEST entry has some.
Entries == {patterns[i].value : i \in 1..Len(patterns)}

C12_RoleInvariantEnforced ==
    /\ last.op = "add_pattern" =>
          ((\/ last.transaction_type = "REQUEST" /\ last.valid_responses.val = {}
            \/ last.transaction_type = "RESPONSE" /\ last.valid_responses.val # {})
           => last.ret = "ValueError")
    /\ \A e \in Entries :
          /\ e.transaction_type = "RESPONSE" => e.valid_responses.val = {}
          /\ e.transaction_type = "REQUEST" => e.valid_responses.val # {}

C12_Witness ==
    /\ last.op = "add_pattern"
    /\ last.transaction_type = "RESPONSE"
    /\ last.valid_responses = Responses({P_Y})
    /\ last.ret = "ValueError"
    /\ \E e \in Entries : e.transaction_type = "REQUEST"

\* C13: every key of memo_pattern_to_id is the memo_pattern of exactly one
\* entry of patterns.
C13_ReverseKeysHaveOneEntry ==
    \A e \in memo_pattern_to_id :
        Cardinality({i \in 1..Len(patterns) :
                        __eq__(patterns[i].value.memo_pattern, e.key)}) = 1

\* C14: find_matching_pattern returns the id registered first among the ids
\* whose content pattern matches the transaction, and None iff none matches.
FirstRegistered(id) == CHOOSE i \in 1..Len(reg) : reg[i] = id /\ \A j \in 1..(i - 1) : reg[j] # id

MatchingIds(tx) ==
    {id \in PatternIds : has_key(patterns, id) /\ matches(dict_get(patterns, id).memo_pattern, tx)}

C14_EarliestRegistrationWins ==
    last.op = "find_matching_pattern" =>
        IF MatchingIds(last.tx) = {} THEN last.ret = "None"
        ELSE /\ last.ret \in MatchingIds(last.tx)
             /\ \A id \in MatchingIds(last.tx) :
                   FirstRegistered(last.ret) <= FirstRegistered(id)

C14_Witness ==
    /\ last.op = "find_matching_pattern"
    /\ last.tx = TypeOnly(Str(<<"X">>))
    /\ reg = <<"b", "a">>
    /\ dict_get(patterns, "b").memo_pattern = P_wX
    /\ dict_get(patterns, "a").memo_pattern = P_X
    /\ last.ret = "b"

\* C15: is_valid_response is False for an unregistered id and for an entry
\* whose role is not REQUEST, whatever valid_responses it carries; otherwise
\* it is True iff one of the entry's valid_responses matches the transaction.
C15_ValidResponse ==
    last.op = "is_valid_response" =>
        LET id == last.request_pattern_id IN
        IF ~\E i \in 1..Len(patterns) : patterns[i].key = id
        THEN last.ret = "False"
        ELSE LET e == patterns[CHOOSE i \in 1..Len(patterns) : patterns[i].key = id].value IN
             IF e.transaction_type # "REQUEST" THEN last.ret = "False"
             ELSE last.ret = "True" <=>
                     \E rp \in e.valid_responses.val : matches(rp, last.tx)

C15_Witness ==
    /\ last.op = "is_valid_response"
    /\ last.tx = TypeOnly(Str(<<"Y">>))
    /\ last.request_pattern_id = "a"
    /\ last.ret = "False"
    /\ has_key(patterns, "a")
    /\ dict_get(patterns, "a").transaction_type = "STANDALONE"
    /\ dict_get(patterns, "a").valid_responses = Responses({P_Y})
    /\ has_key(patterns, "b")
    /\ dict_get(patterns, "b").transaction_type = "REQUEST"
    /\ is_valid_response(patterns, "b", tx_in)

\* ------------------------------------------- MemoPattern.matches applied
\* matcher slots: unconfigured, the empty literal, a literal, and wildcards
\* that need a character and that accept the empty string
MatchSlots ==
    {PyNone, Str(<<>>), Str(<<"a">>), Re(<<"a">>, ""), Re(<<"a", "*">>, "")}

MatchPatterns ==
    {MemoPattern(type, fmt, data) :
        type \in MatchSlots, fmt \in {PyNone, Str(<<"a">>)}, data \in MatchSlots}

MatchValues ==
    {Absent, PyNone, Str(<<>>), Str(<<"a">>), Str(<<"a", "b">>), Str(<<"b", "a">>)}

MatchTxs ==
    {Tx(PyTrue, type, fmt, data, Success, 1) :
        type \in MatchValues, fmt \in {Absent, Str(<<>>), Str(<<"a">>)},
        data \in MatchValues}

InitMatches ==
    /\ pat_in \in MatchPatterns
    /\ pat_other = NoPattern
    /\ tx_in \in MatchTxs
    /\ outcome = "pending"
    /\ group = create_from_transaction(StdPlain)
    /\ hist = <<>>
    /\ queues = NoQueues
    /\ NoGraph

Matches ==
    /\ outcome = "pending"
    /\ outcome' = IF matches(pat_in, tx_in) THEN "True" ELSE "False"
    /\ UNCHANGED <<group_vars, graph_vars, input_vars>>

NextMatches == Matches

SpecMatches == InitMatches /\ [][NextMatches]_vars

\* C16: matches returns True exactly when, for every slot of the pattern that
\* holds a matcher, the tx field of the same name is present and equals the
\* literal, or is matched from its start by the wildcard; a slot without a
\* matcher asks nothing, so the pattern with three empty slots matches all.
Slots == {"memo_type", "memo_format", "memo_data"}

Configured(slot) == slot.kind # "None"

Present(v) == v.kind = "str"

Satisfies(slot, value) ==
    IF slot.kind = "re" THEN re_match(slot, value) ELSE slot.val = value

C16_MatchesIffSlotsSatisfied ==
    outcome # "pending" =>
        (outcome = "True" <=>
            \A key \in Slots :
                Configured(pat_in[key]) =>
                    /\ Present(tx_in[key])
                    /\ Satisfies(pat_in[key], tx_in[key].val))

\* ------------------------------------- MemoPattern.__eq__ and __hash__
\* slots that differ in kind only, in text only and in flags only
EqSlots ==
    {PyNone, Str(<<"a">>), Str(<<"^", "a">>), Re(<<"^", "a">>, ""),
     Re(<<"^", "a">>, "DOTALL"), Re(<<"a">>, "")}

EqPatterns ==
    {MemoPattern(type, fmt, data) :
        type \in EqSlots, fmt \in {PyNone, Str(<<"a">>)}, data \in EqSlots}

InitEq ==
    /\ pat_in \in EqPatterns
    /\ pat_other \in EqPatterns
    /\ tx_in = StdPlain
    /\ outcome = "pending"
    /\ group = create_from_transaction(StdPlain)
    /\ hist = <<>>
    /\ queues = NoQueues
    /\ NoGraph

\* pat_in == pat_other and hash(pat_in) == hash(pat_other), evaluated together
Equals ==
    /\ outcome = "pending"
    /\ outcome' = IF __eq__(pat_in, pat_other)
                  THEN (IF __hash__(pat_in) = __hash__(pat_other)
                        THEN "eq, same hash" ELSE "eq, other hash")
                  ELSE (IF __hash__(pat_in) = __hash__(pat_other)
                        THEN "ne, same hash" ELSE "ne, other hash")
    /\ UNCHANGED <<group_vars, graph_vars, input_vars>>

NextEq == Equals

SpecEq == InitEq /\ [][NextEq]_vars

\* C17: two patterns are equal exactly when each slot pair is equal, where
\* absent equals only absent, two literals are equal iff their text is, two
\* wildcards are equal iff their source text is, and a literal never equals a
\* wildcard; equal patterns have the same hash.
SlotEq(a, b) ==
    \/ a.kind = "None" /\ b.kind = "None"
    \/ a.kind = "str" /\ b.kind = "str" /\ a.val = b.val
    \/ a.kind = "re" /\ b.kind = "re" /\ a.val = b.val

C17_EqualIffSlotsEqual ==
    outcome # "pending" =>
        /\ outcome \in {"eq, same hash", "eq, other hash"}
               <=> \A key \in Slots : SlotEq(pat_in[key], pat_other[key])
        /\ outcome # "eq, other hash"

\* two distinct wildcard objects with one source text were found equal, with
\* one hash
C17_Witness ==
    /\ outcome = "eq, same hash"
    /\ pat_in.memo_type = Re(<<"^", "a">>, "")
    /\ pat_other.memo_type = Re(<<"^", "a">>, "DOTALL")
    /\ pat_in.memo_data = Str(<<"a">>)

\* --------------------------------- reads interleaved with the two writers
\* A group and a registry that grow by add_memo and add_pattern while every
\* read operation is applied to them and to one transaction record; each
\* step records the call it made in last.
ReadTxs == {FragC(1), LegA, LegB}
ReadPatterns == {P_X, P_wX}

InitReads ==
    /\ \E seed \in {FragC(1), LegA} : group = create_from_transaction(seed)
    /\ tx_in \in ReadTxs \cup {TypeOnly(Str(<<"X">>)), NullData}
    /\ hist = <<>>
    /\ queues = NoQueues
    /\ outcome = "pending"
    /\ NoGraph
    /\ NoPatternInput

ReadsAddMemo(tx) ==
    /\ Len(group.memos) < MaxCalls
    /\ LET r == add_memo(group, tx) IN
          /\ group' = [group EXCEPT !.memos = r.memos]
          /\ last' = [op |-> "add_memo", tx |-> tx, ret |-> r.ret]
    /\ UNCHANGED <<hist, queues, outcome, patterns, memo_pattern_to_id, reg, input_vars>>

ReadMatch ==
    /\ last' = [op |-> "match", tx |-> tx_in, ret |-> match(tx_in)]
    /\ UNCHANGED <<group_vars, patterns, memo_pattern_to_id, reg, input_vars, outcome>>

ReadFromTransaction ==
    /\ last' = [op |-> "from_transaction", tx |-> tx_in,
                ret |-> IF from_transaction_raises(tx_in)
                        THEN "TypeError" ELSE "MemoStructure",
                structure |-> IF from_transaction_raises(tx_in)
                              THEN <<>> ELSE <<from_transaction(tx_in)>>]
    /\ UNCHANGED <<group_vars, patterns, memo_pattern_to_id, reg, input_vars, outcome>>

ReadMatches(mp) ==
    /\ last' = [op |-> "matches", memo_pattern |-> mp, tx |-> tx_in,
                ret |-> IF matches(mp, tx_in) THEN "True" ELSE "False"]
    /\ UNCHANGED <<group_vars, patterns, memo_pattern_to_id, reg, input_vars, outcome>>

ReadChunkIndices_mut ==
    /\ last' = [op |-> "chunk_indices", indices |-> chunk_indices(group)]
    /\ group' = [group EXCEPT !.memos = <<>>]
    /\ UNCHANGED <<hist, queues, patterns, memo_pattern_to_id, reg, input_vars, outcome>>

ReadChunkIndices ==
    /\ last' = [op |-> "chunk_indices", indices |-> chunk_indices(group)]
    /\ UNCHANGED <<group_vars, patterns, memo_pattern_to_id, reg, input_vars, outcome>>

NextReads ==
    \/ \E tx \in ReadTxs : ReadsAddMemo(tx)
    \/ \E mp \in ReadPatterns :
          \/ AddPattern("a", mp, "STANDALONE", NoResponses)
          \/ AddPattern("a", mp, "REQUEST", Responses({P_X}))
    \/ ReadMatch
    \/ ReadFromTransaction
    \/ \E mp \in ReadPatterns : ReadMatches(mp)
    \/ ReadChunkIndices
    \/ FindMatchingPattern
    \/ IsValidResponse("a")
    \/ \E mp \in ReadPatterns : GetPatternIdByMemoPattern(mp)

SpecReads == InitReads /\ [][NextReads]_vars

\* C18: a step that is one of the seven read operations (match,
\* from_transaction, matches, find_matching_pattern, is_valid_response,
\* get_pattern_id_by_memo_pattern, chunk_indices) leaves the transaction
\* record, the group (members, group_id, descriptor) and both registry maps
\* as they were.
ReadOps ==
    {"match", "from_transaction", "matches", "find_matching_pattern",
     "is_valid_response", "get_pattern_id_by_memo_pattern", "chunk_indices"}

C18_ReadsArePure ==
    [][last'.op \in ReadOps =>
          UNCHANGED <<tx_in, group, patterns, memo_pattern_to_id>>]_vars

\* a read was applied to a group with two members and a non-empty registry
C18_Witness ==
    /\ last.op = "chunk_indices"
    /\ last.indices # {}
    /\ Len(group.memos) >= 2
    /\ patterns # <<>>
    /\ memo_pattern_to_id # {}

\* C19: add_memo returns True exactly when the call changed the member list:
\* after a True the list differs from the one before (an append or a
\* replacement), after a False it is the same list; group_id and the
\* descriptor are the same after the call in both cases.
C19_TrueIffMembersChanged ==
    [][(Len(hist') = Len(hist) + 1 /\ Last(hist').op = "add_memo")
       => /\ Last(hist').ret = "True" => group'.memos # group.memos
          /\ Last(hist').ret = "False" => group'.memos = group.memos
          /\ group'.group_id = group.group_id
          /\ group'.structure = group.structure]_vars

\* the last call returned True for a replacement (the list kept its length),
\* and the call before it returned False
C19_Witness ==
    /\ Len(hist) >= 3
    /\ Last(hist).op = "add_memo"
    /\ Last(hist).ret = "True"
    /\ Len(Last(hist).memos) = Len(MemosBefore(Len(hist)))
    /\ Last(hist).memos # MemosBefore(Len(hist))
    /\ hist[Len(hist) - 1].ret = "False"

\* C20: for a record with the memo flag set whose format string is not
\* current grammar, the classifier answers NEEDS_LEGACY_GROUPING exactly when
\* the descriptor from_transaction derives for the same record is chunked, and
\* DIRECT_MATCH exactly when it is not chunked.
LegacyRecord(tx) ==
    /\ truthy(get(tx, "has_memos"))
    /\ ~is_standardized_memo_format(get(tx, "memo_format"))
    /\ ~from_transaction_raises(tx)

C20_ClassifierAgreesWithDescriptor ==
    (outcome # "pending" /\ LegacyRecord(tx_in)) =>
        /\ outcome = "NEEDS_LEGACY_GROUPING" <=> from_transaction(tx_in).is_chunked
        /\ outcome = "DIRECT_MATCH" <=> ~from_transaction(tx_in).is_chunked

\* C21: an add_pattern call that raises for the role violation leaves patterns
\* and memo_pattern_to_id exactly as they were before the call, whether its
\* pattern_id is new or already registered.
C21_FailedRegistrationLeavesRegistry ==
    [][(last'.op = "add_pattern" /\ last'.ret = "ValueError")
       => UNCHANGED <<patterns, memo_pattern_to_id>>]_vars

\* a failed call named an id that is registered with another pattern, and the
\* entry and the reverse index still show the first registration only
C21_Witness ==
    /\ last.op = "add_pattern"
    /\ last.ret = "ValueError"
    /\ has_key(patterns, last.pattern_id)
    /\ dict_get(patterns, last.pattern_id).memo_pattern # last.memo_pattern
    /\ \A e \in memo_pattern_to_id : ~__eq__(e.key, last.memo_pattern)

====
